---- MODULE Spec2Model ----
(***************************************************************************)
(* The cart reservation / order commit core of Rangista-Backend            *)
(* (src/crud.py, src/main.py, src/models.py).                              *)
(*                                                                         *)
(* Every HTTP request runs a crud function on a SQLAlchemy session of its  *)
(* own (src/database.py: autocommit=False, autoflush=False, and the        *)
(* default expire_on_commit=True).  A query reads the committed database   *)
(* at the moment it is issued; the objects it loads are kept by the        *)
(* session; attribute changes are written as absolute values by the flush  *)
(* that db.commit() performs, and that flush and commit are one atomic     *)
(* step for every other session.  Nothing in src/crud.py locks a row       *)
(* (no with_for_update), so between the queries and the commit of one      *)
(* request the steps of other requests may run.                            *)
(***************************************************************************)
EXTENDS Integers, Sequences, FiniteSets, TLC

\* ------------------------------------------------------------------ bounds
MaxOps == 3        \* requests started in a behaviour of concurrent requests
MaxCalls == 4      \* calls made in a behaviour of calls made one at a time
MaxTries == 3      \* calls made one at a time with unchecked inputs
MaxPairs == 4      \* calls made in a behaviour that records the last two calls
MaxReads == 4      \* calls made in a behaviour in which prices change
MaxSteps == 4      \* calls made in a behaviour that may follow the scenario
MaxStock == 2      \* the seeded stock of every counter is in 0..MaxStock
MaxQty == 2        \* requested quantities are at most MaxQty
NegQty == 1        \* and, where they are not checked, at least -NegQty
MaxLogins == 3     \* signin, refresh and logout requests in a behaviour
MaxClock == 2      \* seconds the wall clock advances in a behaviour

\* ------------------------------------------------------------ value domains
Reqs == {1, 2}                                 \* request slots (sessions)
UserIds == {1, 2}
ProductIds == {"P", "Q"}
Sizes == {"XS", "S", "M", "L", "XL", "XXL"}    \* the columns of Product

\* What the clients send, and the stock the catalog is seeded with.
\*   (history: whether the call before the last one is kept on record.)
\*   Concurrent: requests whose steps interleave, on one product row and
\*     one size, with quantities of at least 1.
\*   WellFormed: calls made one at a time, on two products.
\*   Unchecked: calls made one at a time, with a size string that is no
\*     column of Product, quantities below 1, a user id that is in no row of
\*     users and an order_time that is no ISO date: crud.py tests none.
\*   Scenario: calls made one at a time with the values of the scenario of
\*     spec.md section 8.
\*   Paired: calls made one at a time on one product row, the last two of
\*     them on record.
\*   Strangers: calls made one at a time, some with a user id that is in no
\*     row of users (crud.py tests it in create_order_from_cart only).
\*   Sessions: concurrent signin, refresh and logout requests of one user.
\*   Catalog: calls made one at a time by one customer, on two sizes, while
\*     the catalog changes prices, the last two calls on record.
Concurrent == [alone |-> FALSE, history |-> FALSE, limit |-> MaxOps, seeds |-> 0..MaxStock,
               callers |-> UserIds, orderers |-> UserIds,
               products |-> {"P"}, sizes |-> {"M"}, quantities |-> 1..MaxQty,
               times |-> {"2026-01-01"}, statuses |-> {"shipped"}]
WellFormed == [alone |-> TRUE, history |-> FALSE, limit |-> MaxCalls, seeds |-> 0..MaxStock,
               callers |-> UserIds, orderers |-> UserIds,
               products |-> ProductIds, sizes |-> {"M"}, quantities |-> 1..MaxQty,
               times |-> {"2026-01-01"}, statuses |-> {"shipped"}]
Unchecked == [alone |-> TRUE, history |-> FALSE, limit |-> MaxTries, seeds |-> 0..MaxStock,
              callers |-> UserIds, orderers |-> UserIds \cup {3},
              products |-> {"P"}, sizes |-> {"M", "XXXL"},
              quantities |-> (0 - NegQty)..MaxQty,
              times |-> {"2026-01-01", "tomorrow"}, statuses |-> {"shipped"}]
Scenario == [alone |-> TRUE, history |-> FALSE, limit |-> MaxSteps, seeds |-> {5},
             callers |-> UserIds, orderers |-> UserIds,
             products |-> {"P"}, sizes |-> {"M"}, quantities |-> {1, 3},
             times |-> {"2026-01-01"}, statuses |-> {"shipped"}]
Paired == [alone |-> TRUE, history |-> TRUE, limit |-> MaxPairs,
           seeds |-> 0..MaxStock, callers |-> UserIds, orderers |-> UserIds,
           products |-> {"P"}, sizes |-> {"M"}, quantities |-> 1..MaxQty,
           times |-> {"2026-01-01"}, statuses |-> {"shipped"}]
Catalog == [alone |-> TRUE, history |-> TRUE, limit |-> MaxReads,
            seeds |-> {MaxStock}, callers |-> {1}, orderers |-> UserIds,
            products |-> {"P"}, sizes |-> {"M", "XL"}, quantities |-> 1..MaxQty,
            times |-> {"2026-01-01"}, statuses |-> {"shipped"}]
Strangers == [alone |-> TRUE, history |-> FALSE, limit |-> MaxCalls,
              seeds |-> 0..MaxStock, callers |-> {1, 3}, orderers |-> {1, 3},
              products |-> {"P"}, sizes |-> {"M"}, quantities |-> 1..MaxQty,
              times |-> {"2026-01-01"}, statuses |-> {"shipped"}]
Sessions == [alone |-> FALSE, history |-> FALSE, limit |-> MaxLogins,
             seeds |-> {0}, callers |-> {1}, orderers |-> {},
             products |-> {}, sizes |-> {}, quantities |-> {},
             times |-> {}, statuses |-> {}]

NoRow == [id |-> 0, user_id |-> 0, product_id |-> "", size |-> "", quantity |-> 0]
NoProduct == [found |-> FALSE, id |-> "", stock |-> [s \in Sizes |-> 0]]
NoReq == [op |-> "none", user_id |-> 0, product_id |-> "", size |-> "",
          quantity |-> 0, order_time |-> "", order_id |-> 0, status |-> ""]
NoSess == [product |-> NoProduct, cart_item |-> NoRow, cart_items |-> <<>>,
           db_order |-> 0, idx |-> 0]
NoView == [total_products |-> 0, items |-> <<>>]
NoToken == [sub |-> 0, type |-> "", exp |-> 0]
NoAuth == [pc |-> "idle", op |-> "none", user_id |-> 0, access |-> NoToken,
          refresh |-> NoToken, res |-> "none"]

VARIABLES
    users,       \* ids of the rows of table users
    products,    \* ids of the rows of table products
    stock,       \* stock[p][s]: column <s>_stock of product row p
    cart,        \* rows of table cart
    orders,      \* rows of table orders
    orderItems,  \* rows of table order_items
    ids,         \* the autoincrement counters of cart, orders, order_items
    stock0,      \* the seeded stock (never changes)
    pc,          \* pc[r]: where request r stands in its handler
    req,         \* req[r]: the request being served (kept after it ends)
    sess,        \* sess[r]: the objects r's session has loaded
    res,         \* res[r]: the outcome of r's last request
    pre,         \* the database when the last one-at-a-time call began
    prev,        \* the call before the last one: its request, outcome and pre
    prices,      \* prices[p][s]: column <s>_price of product row p
    shown,       \* the OrderResponses the last call got from an order view
    view,        \* the CartResponse the last call got from get_user_cart
    nops,        \* requests started so far
    tokens,      \* rows of table tokens
    clock,       \* the second the wall clock shows
    auth,        \* auth[r]: the signin, refresh or logout request r serves
    workload     \* what the clients send (never changes)

dbvars == <<users, products, stock, cart, orders, orderItems>>
vars == <<users, products, stock, cart, orders, orderItems, ids, stock0,
          pc, req, sess, res, pre, prev, prices, shown, view, nops,
          tokens, clock, auth, workload>>

\* What the cart and order handlers never touch.
authvars == <<tokens, clock, auth>>

\* The persisted tables as one value.
Db == [products |-> products, stock |-> stock, cart |-> cart,
       orders |-> orders, orderItems |-> orderItems]

NoDb == [products |-> {}, stock |-> [p \in ProductIds |-> [s \in Sizes |-> 0]],
         cart |-> {}, orders |-> {}, orderItems |-> {}]

NoPrev == [req |-> NoReq, res |-> "none", pre |-> NoDb]

\* ------------------------------------------------------- the size ladders

\* `size == "XS" and product.XS_stock < q ... elif size == "XXL" and ...`
InsufficientStock(row, size, q) ==
    \/ size = "XS" /\ row["XS"] < q
    \/ size = "S" /\ row["S"] < q
    \/ size = "M" /\ row["M"] < q
    \/ size = "L" /\ row["L"] < q
    \/ size = "XL" /\ row["XL"] < q
    \/ size = "XXL" /\ row["XXL"] < q

\* A slip in the ladder: the branch of size M deducts from column L as well.
DeductStock_TwoColumns(row, size, q) ==
    IF size = "XS" THEN [row EXCEPT !["XS"] = @ - q]
    ELSE IF size = "S" THEN [row EXCEPT !["S"] = @ - q]
    ELSE IF size = "M" THEN [row EXCEPT !["M"] = @ - q, !["L"] = @ - q]
    ELSE IF size = "L" THEN [row EXCEPT !["L"] = @ - q]
    ELSE IF size = "XL" THEN [row EXCEPT !["XL"] = @ - q]
    ELSE IF size = "XXL" THEN [row EXCEPT !["XXL"] = @ - q]
    ELSE row

\* `if size == "XS": product.XS_stock -= q elif ...` (no else branch)
DeductStock(row, size, q) ==
    IF size = "XS" THEN [row EXCEPT !["XS"] = @ - q]
    ELSE IF size = "S" THEN [row EXCEPT !["S"] = @ - q]
    ELSE IF size = "M" THEN [row EXCEPT !["M"] = @ - q]
    ELSE IF size = "L" THEN [row EXCEPT !["L"] = @ - q]
    ELSE IF size = "XL" THEN [row EXCEPT !["XL"] = @ - q]
    ELSE IF size = "XXL" THEN [row EXCEPT !["XXL"] = @ - q]
    ELSE row

\* A slip in the ladder: the branch of size M adds to column L.
AddBackStock_WrongColumn(row, size, q) ==
    IF size = "XS" THEN [row EXCEPT !["XS"] = @ + q]
    ELSE IF size = "S" THEN [row EXCEPT !["S"] = @ + q]
    ELSE IF size = "M" THEN [row EXCEPT !["L"] = @ + q]
    ELSE IF size = "L" THEN [row EXCEPT !["L"] = @ + q]
    ELSE IF size = "XL" THEN [row EXCEPT !["XL"] = @ + q]
    ELSE IF size = "XXL" THEN [row EXCEPT !["XXL"] = @ + q]
    ELSE row

\* `if size == "XS": product.XS_stock += q elif ...` (no else branch)
AddBackStock(row, size, q) ==
    IF size = "XS" THEN [row EXCEPT !["XS"] = @ + q]
    ELSE IF size = "S" THEN [row EXCEPT !["S"] = @ + q]
    ELSE IF size = "M" THEN [row EXCEPT !["M"] = @ + q]
    ELSE IF size = "L" THEN [row EXCEPT !["L"] = @ + q]
    ELSE IF size = "XL" THEN [row EXCEPT !["XL"] = @ + q]
    ELSE IF size = "XXL" THEN [row EXCEPT !["XXL"] = @ + q]
    ELSE row

Abs(n) == IF n < 0 THEN 0 - n ELSE n

\* The rule deducting the whole new quantity instead of the delta.
AdjustStock_FullQuantity(row, size, old, new) ==
    IF new - old > 0 THEN DeductStock(row, size, new)
    ELSE IF new - old < 0 THEN AddBackStock(row, size, Abs(new - old))
    ELSE row

\* The delta rule without its `elif quantity_delta < 0` branch.
AdjustStock_NoRelease(row, size, old, new) ==
    IF new - old > 0 THEN DeductStock(row, size, new - old) ELSE row

\* The delta rule shared by add_to_cart (existing entry) and
\* update_cart_quantity: the stock row the session holds after it.
AdjustStock(row, size, old, new) ==
    LET quantity_delta == new - old IN
    IF quantity_delta > 0 THEN DeductStock(row, size, quantity_delta)
    ELSE IF quantity_delta < 0 THEN AddBackStock(row, size, Abs(quantity_delta))
    ELSE row

AdjustRejected(row, size, old, new) ==
    new - old > 0 /\ InsufficientStock(row, size, new - old)

\* ------------------------------------------------------------ the queries

\* db.query(models.Product).filter(models.Product.id == product_id).first()
QueryProduct(p) ==
    IF p \in products THEN [found |-> TRUE, id |-> p, stock |-> stock[p]]
    ELSE NoProduct

\* The rows db.query(models.Cart).filter(user_id, product_id, size) matches.
MatchingCart(u, p, s) ==
    {c \in cart : c.user_id = u /\ c.product_id = p /\ c.size = s}

\* db.query(models.Cart).filter(models.Cart.user_id == user_id).all()
UserCart(u) == {c \in cart : c.user_id = u}

RECURSIVE SortedById(_)
SortedById(S) ==
    IF S = {} THEN <<>>
    ELSE LET m == CHOOSE x \in S : \A y \in S : x.id <= y.id
         IN <<m>> \o SortedById(S \ {m})

\* Columns XS_price .. XXL_price of the product rows as the catalog is
\* seeded (catalog data, never written by the cart and order operations).
SeededPrices ==
    [p \in ProductIds |->
        IF p = "P"
        THEN [XS |-> 10, S |-> 20, M |-> 30, L |-> 40, XL |-> 50, XXL |-> 60]
        ELSE [XS |-> 15, S |-> 25, M |-> 35, L |-> 45, XL |-> 55, XXL |-> 65]]

\* `r.XS_price if r.size == "XS" else ... else r.XXL_price`
PriceOf(row, size) ==
    IF size = "XS" THEN row["XS"]
    ELSE IF size = "S" THEN row["S"]
    ELSE IF size = "M" THEN row["M"]
    ELSE IF size = "L" THEN row["L"]
    ELSE IF size = "XL" THEN row["XL"]
    ELSE row["XXL"]

\* The rows of db.query(Product..., Cart...).join(Cart, Product.id ==
\* Cart.product_id).filter(Cart.user_id == user_id).all(): an inner join.
JoinedCart(u) == {c \in cart : c.user_id = u /\ c.product_id \in products}

\* schemas.CartProduct(...) of one joined row (the columns name, collection
\* and image of the product are left out).
CartProduct(c) ==
    [user_id |-> c.user_id, product_id |-> c.product_id, size |-> c.size,
     quantity |-> c.quantity, price |-> PriceOf(prices[c.product_id], c.size)]

\* get_user_cart: schemas.CartResponse(total_products=len(items), items=items)
CartResponse(u) ==
    LET results == SortedById(JoinedCart(u))
        items == [i \in 1..Len(results) |-> CartProduct(results[i])]
    IN [total_products |-> Len(items), items |-> items]

\* get_all_orders: `item.XS_price if item.size == "XS" else ... else
\* item.XXL_price`
AllOrdersPrice(row, size) ==
    IF size = "XS" THEN row["XS"]
    ELSE IF size = "S" THEN row["S"]
    ELSE IF size = "M" THEN row["M"]
    ELSE IF size = "L" THEN row["L"]
    ELSE IF size = "XL" THEN row["XL"]
    ELSE row["XXL"]

\* get_user_orders: the same ladder.
UserOrdersPrice(row, size) ==
    IF size = "XS" THEN row["XS"]
    ELSE IF size = "S" THEN row["S"]
    ELSE IF size = "M" THEN row["M"]
    ELSE IF size = "L" THEN row["L"]
    ELSE IF size = "XL" THEN row["XL"]
    ELSE row["XXL"]

\* A slip in the ladder of get_order: the branch of size L reads XL_price.
OrderPrice_WrongColumn(row, size) ==
    IF size = "XS" THEN row["XS"]
    ELSE IF size = "S" THEN row["S"]
    ELSE IF size = "M" THEN row["M"]
    ELSE IF size = "L" THEN row["XL"]
    ELSE IF size = "XL" THEN row["XL"]
    ELSE row["XXL"]

\* get_order: the same ladder.
OrderPrice(row, size) ==
    IF size = "XS" THEN row["XS"]
    ELSE IF size = "S" THEN row["S"]
    ELSE IF size = "M" THEN row["M"]
    ELSE IF size = "L" THEN row["L"]
    ELSE IF size = "XL" THEN row["XL"]
    ELSE row["XXL"]

\* The rows of db.query(OrderItem..., Product...).join(Product,
\* OrderItem.product_id == Product.id).filter(OrderItem.order_id == order.id)
JoinedItems(o) ==
    {i \in orderItems : i.order_id = o.id /\ i.product_id \in products}

\* `total_price += price * item.quantity` over the order's joined rows.
RECURSIVE TotalPrice(_)
TotalPrice(order_products) ==
    IF order_products = <<>> THEN 0
    ELSE Head(order_products).price * Head(order_products).quantity
             + TotalPrice(Tail(order_products))

\* schemas.OrderResponse(...) of one order, price[i] being the price the
\* ladder of the function that builds it gives item i (username and
\* product_name left out).
OrderResponse(o, price) ==
    LET items == SortedById(JoinedItems(o))
        order_products ==
            [k \in 1..Len(items) |->
                [product_id |-> items[k].product_id, size |-> items[k].size,
                 quantity |-> items[k].quantity,
                 price |-> price[items[k]]]]
    IN [order_id |-> o.id, user_id |-> o.user_id, status |-> o.status,
        total_products |-> Len(items), total_price |-> TotalPrice(order_products),
        products |-> order_products, order_time |-> o.time]

\* db.query(Order).join(User, Order.user_id == User.id)...: an inner join.
JoinedOrders == {o \in orders : o.user_id \in users}

\* get_all_orders
AllOrders ==
    LET results == SortedById(JoinedOrders)
    IN [k \in 1..Len(results) |-> OrderResponse(results[k],
            [i \in JoinedItems(results[k]) |-> AllOrdersPrice(prices[i.product_id], i.size)])]

\* get_user_orders
UserOrders(u) ==
    LET results == SortedById({o \in JoinedOrders : o.user_id = u})
    IN [k \in 1..Len(results) |-> OrderResponse(results[k],
            [i \in JoinedItems(results[k]) |-> UserOrdersPrice(prices[i.product_id], i.size)])]

\* get_order on the rows `table` of orders: a one-element list, or the empty
\* list for `return None`.
OneOrder(table, id) ==
    LET results == SortedById({o \in table : o.id = id /\ o.user_id \in users})
    IN [k \in 1..Len(results) |-> OrderResponse(results[k],
            [i \in JoinedItems(results[k]) |-> OrderPrice(prices[i.product_id], i.size)])]

\* --------------------------------------------------------------- the flush

\* UPDATE products SET <changed columns> WHERE id = p: the unit of work
\* writes the columns whose value differs from the value it loaded.
FlushProduct(p, loaded, changed) ==
    [stock EXCEPT ![p] = [s \in Sizes |->
        IF changed[s] # loaded[s] THEN changed[s] ELSE @[s]]]

\* The flush of a changed product row finds the row gone (StaleDataError).
StaleProduct(p, loaded, changed) == changed # loaded /\ p \notin products

\* UPDATE cart SET quantity = q WHERE id = c.id, emitted when the quantity
\* changed, finds the row gone (StaleDataError).
StaleCart(c, q) == q # c.quantity /\ ~(\E d \in cart : d.id = c.id)

\* The cart after UPDATE cart SET quantity = q WHERE id = c.id.
FlushQuantity(c, q) ==
    IF q = c.quantity THEN cart
    ELSE {IF d.id = c.id THEN [d EXCEPT !.quantity = q] ELSE d : d \in cart}

\* The cart after DELETE FROM cart WHERE id = c.id (a row already gone is
\* only warned about by the unit of work).
FlushDelete(c) == {d \in cart : d.id # c.id}

\* --------------------------------------------------------- request bookkeeping

Idle(r) == pc[r] = "idle"

\* A request arrives at slot r.  When calls are made one at a time only
\* slot 1 is used, and the database the call starts from is remembered.
Arrive(r) ==
    /\ Idle(r)
    /\ nops < workload.limit
    /\ workload.alone => r = 1
    /\ nops' = nops + 1
    /\ pre' = IF workload.alone THEN Db ELSE pre
    /\ prev' = IF workload.history
               THEN [req |-> req[r], res |-> res[r], pre |-> pre]
               ELSE prev

\* The handler of `request` goes on to its next database call.
Goto(r, request, label, session) ==
    /\ pc' = [pc EXCEPT ![r] = label]
    /\ req' = [req EXCEPT ![r] = request]
    /\ sess' = [sess EXCEPT ![r] = session]
    /\ res' = [res EXCEPT ![r] = "none"]
    /\ view' = NoView
    /\ shown' = <<>>
    /\ UNCHANGED <<prices, authvars>>

\* The handler of `request` returns or raises and the session is closed.
\* The request stays on record only when calls are made one at a time.
Return(r, request, outcome) ==
    /\ pc' = [pc EXCEPT ![r] = "idle"]
    /\ req' = [req EXCEPT ![r] = IF workload.alone THEN request ELSE NoReq]
    /\ sess' = [sess EXCEPT ![r] = NoSess]
    /\ res' = [res EXCEPT ![r] = outcome]
    /\ view' = NoView
    /\ shown' = <<>>
    /\ UNCHANGED <<prices, authvars>>

\* ------------------------------------------------------------- add_to_cart

\* add_to_cart without its `if not product: return None`.
AddToCart_Product_Skips(r) ==
    \E u \in workload.callers, p \in workload.products, s \in workload.sizes,
       q \in workload.quantities :
        LET rq == [NoReq EXCEPT !.op = "add", !.user_id = u, !.product_id = p,
                                !.size = s, !.quantity = q]
        IN
        /\ Arrive(r)
        /\ Goto(r, rq, "a_cart", [NoSess EXCEPT !.product = QueryProduct(p)])
        /\ UNCHANGED <<dbvars, ids, stock0, workload>>

\* The request arrives and `product = db.query(Product)...first()` runs;
\* `if not product: return None` (main.py answers 400).
AddToCart_Product(r) ==
    \E u \in workload.callers, p \in workload.products, s \in workload.sizes,
       q \in workload.quantities :
        LET rq == [op |-> "add", user_id |-> u, product_id |-> p, size |-> s,
                   quantity |-> q, order_time |-> "",
                   order_id |-> 0, status |-> ""]
            product == QueryProduct(p)
        IN
        /\ Arrive(r)
        /\ IF product.found
           THEN Goto(r, rq, "a_cart", [NoSess EXCEPT !.product = product])
           ELSE Return(r, rq, "ProductNotFound")
        /\ UNCHANGED <<dbvars, ids, stock0, workload>>

\* `existing_cart_item = db.query(Cart).filter(...).first()`: any one of the
\* matching rows (the query has no ORDER BY), or None.
AddToCart_Cart(r) ==
    /\ pc[r] = "a_cart"
    /\ LET m == MatchingCart(req[r].user_id, req[r].product_id, req[r].size) IN
       \E c \in (IF m = {} THEN {NoRow} ELSE m) :
           Goto(r, req[r], "a_commit", [sess[r] EXCEPT !.cart_item = c])
    /\ UNCHANGED <<dbvars, ids, stock0, pre, prev, nops, workload>>

\* add_to_cart on an existing entry adding the requested quantity to the
\* entry instead of replacing it.
AddToCart_Existing_Accumulates(r) ==
    LET rq == req[r]
        loaded == sess[r].product.stock
        existing == sess[r].cart_item
        changed == DeductStock(loaded, rq.size, rq.quantity)
    IN
    IF InsufficientStock(loaded, rq.size, rq.quantity)
    THEN Return(r, rq, "InsufficientStock") /\ UNCHANGED <<dbvars, ids>>
    ELSE IF \/ StaleProduct(rq.product_id, loaded, changed)
            \/ StaleCart(existing, existing.quantity + rq.quantity)
    THEN Return(r, rq, "StaleDataError") /\ UNCHANGED <<dbvars, ids>>
    ELSE /\ stock' = FlushProduct(rq.product_id, loaded, changed)
         /\ cart' = FlushQuantity(existing, existing.quantity + rq.quantity)
         /\ Return(r, rq, "ok")
         /\ UNCHANGED <<users, products, orders, orderItems, ids>>

\* add_to_cart, existing entry: the delta rule, the new quantity, db.commit().
AddToCart_Existing(r) ==
    LET rq == req[r]
        loaded == sess[r].product.stock
        existing == sess[r].cart_item
        changed == AdjustStock(loaded, rq.size, existing.quantity, rq.quantity)
    IN
    IF AdjustRejected(loaded, rq.size, existing.quantity, rq.quantity)
    THEN Return(r, rq, "InsufficientStock") /\ UNCHANGED <<dbvars, ids>>
    ELSE IF \/ StaleProduct(rq.product_id, loaded, changed)
            \/ StaleCart(existing, rq.quantity)
    THEN Return(r, rq, "StaleDataError") /\ UNCHANGED <<dbvars, ids>>
    ELSE /\ stock' = FlushProduct(rq.product_id, loaded, changed)
         /\ cart' = FlushQuantity(existing, rq.quantity)
         /\ Return(r, rq, "ok")
         /\ UNCHANGED <<users, products, orders, orderItems, ids>>

\* add_to_cart, new entry, with the row inserted and committed before the
\* stock is verified.
AddToCart_New_ChecksLate(r) ==
    LET rq == req[r]
        loaded == sess[r].product.stock
        changed == DeductStock(loaded, rq.size, rq.quantity)
        inserted == cart \cup {[id |-> ids.cart, user_id |-> rq.user_id,
                                product_id |-> rq.product_id, size |-> rq.size,
                                quantity |-> rq.quantity]}
    IN
    IF InsufficientStock(loaded, rq.size, rq.quantity)
    THEN /\ cart' = inserted
         /\ ids' = [ids EXCEPT !.cart = @ + 1]
         /\ Return(r, rq, "InsufficientStock")
         /\ UNCHANGED <<users, products, stock, orders, orderItems>>
    ELSE IF StaleProduct(rq.product_id, loaded, changed)
    THEN Return(r, rq, "StaleDataError") /\ UNCHANGED <<dbvars, ids>>
    ELSE /\ stock' = FlushProduct(rq.product_id, loaded, changed)
         /\ cart' = inserted
         /\ ids' = [ids EXCEPT !.cart = @ + 1]
         /\ Return(r, rq, "ok")
         /\ UNCHANGED <<users, products, orders, orderItems>>

\* add_to_cart, new entry: verify and deduct the full quantity, insert the
\* row, db.commit().
AddToCart_New(r) ==
    LET rq == req[r]
        loaded == sess[r].product.stock
        changed == DeductStock(loaded, rq.size, rq.quantity)
    IN
    IF InsufficientStock(loaded, rq.size, rq.quantity)
    THEN Return(r, rq, "InsufficientStock") /\ UNCHANGED <<dbvars, ids>>
    ELSE IF StaleProduct(rq.product_id, loaded, changed)
    THEN Return(r, rq, "StaleDataError") /\ UNCHANGED <<dbvars, ids>>
    ELSE /\ stock' = FlushProduct(rq.product_id, loaded, changed)
         /\ cart' = cart \cup {[id |-> ids.cart, user_id |-> rq.user_id,
                                product_id |-> rq.product_id, size |-> rq.size,
                                quantity |-> rq.quantity]}
         /\ ids' = [ids EXCEPT !.cart = @ + 1]
         /\ Return(r, rq, "ok")
         /\ UNCHANGED <<users, products, orders, orderItems>>

\* The rest of add_to_cart after its two queries.
AddToCart_Commit(r) ==
    /\ pc[r] = "a_commit"
    /\ IF sess[r].cart_item # NoRow THEN AddToCart_Existing(r) ELSE AddToCart_New(r)
    /\ UNCHANGED <<stock0, pre, prev, nops, workload>>

\* ---------------------------------------------------- update_cart_quantity

\* The request arrives and `cart_item = db.query(Cart)...first()` runs;
\* `if not cart_item: return None` (main.py answers 404).
UpdateCartQuantity_Cart(r) ==
    \E u \in workload.callers, p \in workload.products, s \in workload.sizes,
       q \in workload.quantities :
        LET rq == [op |-> "update", user_id |-> u, product_id |-> p, size |-> s,
                   quantity |-> q, order_time |-> "",
                   order_id |-> 0, status |-> ""]
            m == MatchingCart(u, p, s)
        IN
        /\ Arrive(r)
        /\ IF m = {}
           THEN Return(r, rq, "CartItemNotFound")
           ELSE \E c \in m : Goto(r, rq, "u_product", [NoSess EXCEPT !.cart_item = c])
        /\ UNCHANGED <<dbvars, ids, stock0, workload>>

\* `product = db.query(Product)...first()`; `if not product: return None`.
UpdateCartQuantity_Product(r) ==
    /\ pc[r] = "u_product"
    /\ LET product == QueryProduct(req[r].product_id) IN
       IF product.found
       THEN Goto(r, req[r], "u_commit", [sess[r] EXCEPT !.product = product])
       ELSE Return(r, req[r], "CartItemNotFound")
    /\ UNCHANGED <<dbvars, ids, stock0, pre, prev, nops, workload>>

\* update_cart_quantity committing the stock on its own before the cart
\* row is written.
UpdateCartQuantity_Commit_StockFirst(r) ==
    /\ pc[r] = "u_commit"
    /\ LET rq == req[r]
           loaded == sess[r].product.stock
           cart_item == sess[r].cart_item
           changed == AdjustStock(loaded, rq.size, cart_item.quantity, rq.quantity)
       IN
       IF AdjustRejected(loaded, rq.size, cart_item.quantity, rq.quantity)
       THEN Return(r, rq, "InsufficientStock") /\ UNCHANGED <<dbvars, ids>>
       ELSE IF StaleProduct(rq.product_id, loaded, changed)
       THEN Return(r, rq, "StaleDataError") /\ UNCHANGED <<dbvars, ids>>
       ELSE /\ stock' = FlushProduct(rq.product_id, loaded, changed)
            /\ cart' = FlushQuantity(cart_item, rq.quantity)
            /\ Return(r, rq, IF StaleCart(cart_item, rq.quantity)
                             THEN "StaleDataError" ELSE "ok")
            /\ UNCHANGED <<users, products, orders, orderItems, ids>>
    /\ UNCHANGED <<stock0, pre, prev, nops, workload>>

\* The delta rule, `cart_item.quantity = quantity` and db.commit().
UpdateCartQuantity_Commit(r) ==
    /\ pc[r] = "u_commit"
    /\ LET rq == req[r]
           loaded == sess[r].product.stock
           cart_item == sess[r].cart_item
           changed == AdjustStock(loaded, rq.size, cart_item.quantity, rq.quantity)
       IN
       IF AdjustRejected(loaded, rq.size, cart_item.quantity, rq.quantity)
       THEN Return(r, rq, "InsufficientStock") /\ UNCHANGED <<dbvars, ids>>
       ELSE IF \/ StaleProduct(rq.product_id, loaded, changed)
               \/ StaleCart(cart_item, rq.quantity)
       THEN Return(r, rq, "StaleDataError") /\ UNCHANGED <<dbvars, ids>>
       ELSE /\ stock' = FlushProduct(rq.product_id, loaded, changed)
            /\ cart' = FlushQuantity(cart_item, rq.quantity)
            /\ Return(r, rq, "ok")
            /\ UNCHANGED <<users, products, orders, orderItems, ids>>
    /\ UNCHANGED <<stock0, pre, prev, nops, workload>>

\* -------------------------------------------------------- remove_from_cart

\* The request arrives and `cart_item = db.query(Cart)...first()` runs;
\* `if not cart_item: return None` (main.py answers 404).
RemoveFromCart_Cart(r) ==
    \E u \in workload.callers, p \in workload.products, s \in workload.sizes :
        LET rq == [op |-> "remove", user_id |-> u, product_id |-> p, size |-> s,
                   quantity |-> 0, order_time |-> "",
                   order_id |-> 0, status |-> ""]
            m == MatchingCart(u, p, s)
        IN
        /\ Arrive(r)
        /\ IF m = {}
           THEN Return(r, rq, "CartItemNotFound")
           ELSE \E c \in m : Goto(r, rq, "r_product", [NoSess EXCEPT !.cart_item = c])
        /\ UNCHANGED <<dbvars, ids, stock0, workload>>

\* `product = db.query(Product)...first()`; `if not product: return None`.
RemoveFromCart_Product(r) ==
    /\ pc[r] = "r_product"
    /\ LET product == QueryProduct(req[r].product_id) IN
       IF product.found
       THEN Goto(r, req[r], "r_commit", [sess[r] EXCEPT !.product = product])
       ELSE Return(r, req[r], "CartItemNotFound")
    /\ UNCHANGED <<dbvars, ids, stock0, pre, prev, nops, workload>>

\* remove_from_cart deleting the entry without adding its quantity back.
RemoveFromCart_Commit_NoRelease(r) ==
    /\ pc[r] = "r_commit"
    /\ cart' = FlushDelete(sess[r].cart_item)
    /\ Return(r, req[r], "ok")
    /\ UNCHANGED <<users, products, stock, orders, orderItems, ids>>
    /\ UNCHANGED <<stock0, pre, prev, nops, workload>>

\* The add-back ladder, db.delete(cart_item) and db.commit().
RemoveFromCart_Commit(r) ==
    /\ pc[r] = "r_commit"
    /\ LET rq == req[r]
           loaded == sess[r].product.stock
           cart_item == sess[r].cart_item
           changed == AddBackStock(loaded, rq.size, cart_item.quantity)
       IN
       IF StaleProduct(rq.product_id, loaded, changed)
       THEN Return(r, rq, "StaleDataError") /\ UNCHANGED <<dbvars, ids>>
       ELSE /\ stock' = FlushProduct(rq.product_id, loaded, changed)
            /\ cart' = FlushDelete(cart_item)
            /\ Return(r, rq, "ok")
            /\ UNCHANGED <<users, products, orders, orderItems, ids>>
    /\ UNCHANGED <<stock0, pre, prev, nops, workload>>

\* ----------------------------------------------------------- get_user_cart

\* GET /cart/{user_id}: `cart_data = crud.get_user_cart(db, user_id)`;
\* `if not cart_data.items: raise HTTPException(404, "No items found in
\* cart")`.  The response is on record only when calls are made one at a
\* time.
GetUserCart(r) ==
    \E u \in workload.callers :
        LET rq == [NoReq EXCEPT !.op = "view", !.user_id = u]
            cart_data == CartResponse(u)
        IN
        /\ Arrive(r)
        /\ pc' = [pc EXCEPT ![r] = "idle"]
        /\ req' = [req EXCEPT ![r] = IF workload.alone THEN rq ELSE NoReq]
        /\ sess' = [sess EXCEPT ![r] = NoSess]
        /\ res' = [res EXCEPT ![r] = IF cart_data.items = <<>> THEN "NoItems" ELSE "ok"]
        /\ view' = IF workload.alone THEN cart_data ELSE NoView
        /\ shown' = <<>>
        /\ UNCHANGED <<dbvars, ids, stock0, prices, authvars, workload>>

\* -------------------------------------------------------------- order views

\* What a read-only endpoint answers at once.
Answer(r, rq, outcome, cart_data, order_data) ==
    /\ Arrive(r)
    /\ pc' = [pc EXCEPT ![r] = "idle"]
    /\ req' = [req EXCEPT ![r] = IF workload.alone THEN rq ELSE NoReq]
    /\ sess' = [sess EXCEPT ![r] = NoSess]
    /\ res' = [res EXCEPT ![r] = outcome]
    /\ view' = IF workload.alone THEN cart_data ELSE NoView
    /\ shown' = IF workload.alone THEN order_data ELSE <<>>
    /\ UNCHANGED <<dbvars, ids, stock0, prices, authvars, workload>>

\* GET /orders: `orders = crud.get_all_orders(db)`; `if not orders: raise
\* HTTPException(404, "No orders found")`.
GetAllOrders(r) ==
    LET found == AllOrders IN
    Answer(r, [NoReq EXCEPT !.op = "all_orders"],
           IF found = <<>> THEN "NoOrders" ELSE "ok", NoView, found)

\* get_user_orders answering with the total the order had when the catalog
\* was seeded, as if the price were stored with the order.
GetUserOrders_StoredPrice(r) ==
    \E u \in workload.orderers :
        LET found == UserOrders(u)
            stored(o) ==
                [o EXCEPT !.total_price =
                    TotalPrice([k \in 1..Len(o.products) |->
                        [o.products[k] EXCEPT !.price =
                            SeededPrices[o.products[k].product_id][o.products[k].size]]])]
        IN
        Answer(r, [NoReq EXCEPT !.op = "user_orders", !.user_id = u],
               IF found = <<>> THEN "NoOrders" ELSE "ok", NoView,
               [k \in 1..Len(found) |-> stored(found[k])])

\* GET /users/{user_id}/orders: `orders = crud.get_user_orders(db, user_id)`;
\* 404 when the list is empty.
GetUserOrders(r) ==
    \E u \in workload.orderers :
        LET found == UserOrders(u) IN
        Answer(r, [NoReq EXCEPT !.op = "user_orders", !.user_id = u],
               IF found = <<>> THEN "NoOrders" ELSE "ok", NoView, found)

\* PUT /orders/{order_id}/status: the request arrives and `order =
\* db.query(Order).filter(Order.id == order_id).first()` runs; without a row
\* crud returns None and main.py answers 404 "Order not found".
UpdateOrderStatus_Order(r) ==
    \E id \in {o.id : o \in orders} \cup {ids.order}, st \in workload.statuses :
        LET rq == [NoReq EXCEPT !.op = "status", !.order_id = id, !.status = st] IN
        /\ Arrive(r)
        /\ IF \E o \in orders : o.id = id
           THEN Goto(r, rq, "s_commit", NoSess)
           ELSE Return(r, rq, "OrderNotFound")
        /\ UNCHANGED <<dbvars, ids, stock0, workload>>

\* update_order_status stamping the order with the day of the change.
UpdateOrderStatus_Commit_Restamps(r) ==
    /\ pc[r] = "s_commit"
    /\ orders' = {IF o.id = req[r].order_id
                  THEN [o EXCEPT !.status = req[r].status, !.time = "today"]
                  ELSE o : o \in orders}
    /\ pc' = [pc EXCEPT ![r] = "idle"]
    /\ req' = [req EXCEPT ![r] = IF workload.alone THEN req[r] ELSE NoReq]
    /\ sess' = [sess EXCEPT ![r] = NoSess]
    /\ res' = [res EXCEPT ![r] = "ok"]
    /\ view' = NoView
    /\ shown' = IF workload.alone THEN OneOrder(orders', req[r].order_id) ELSE <<>>
    /\ UNCHANGED <<users, products, stock, cart, orderItems, ids, prices, authvars>>
    /\ UNCHANGED <<stock0, pre, prev, nops, workload>>

\* `order.status = status`, db.commit(), and `return crud.get_order(db,
\* order_id)`.
UpdateOrderStatus_Commit(r) ==
    /\ pc[r] = "s_commit"
    /\ orders' = {IF o.id = req[r].order_id THEN [o EXCEPT !.status = req[r].status]
                  ELSE o : o \in orders}
    /\ pc' = [pc EXCEPT ![r] = "idle"]
    /\ req' = [req EXCEPT ![r] = IF workload.alone THEN req[r] ELSE NoReq]
    /\ sess' = [sess EXCEPT ![r] = NoSess]
    /\ res' = [res EXCEPT ![r] = "ok"]
    /\ view' = NoView
    /\ shown' = IF workload.alone THEN OneOrder(orders', req[r].order_id) ELSE <<>>
    /\ UNCHANGED <<users, products, stock, cart, orderItems, ids, prices, authvars>>
    /\ UNCHANGED <<stock0, pre, prev, nops, workload>>

\* -------------------------------------------------- create_order_from_cart

\* date.fromisoformat(order.order_time) accepts the string.
IsoDate(t) == t \in {"2026-01-01"}

\* create_order_from_cart without its `if not user: raise`.
CreateOrder_User_Skips(r) ==
    \E u \in workload.orderers, t \in workload.times :
        LET rq == [NoReq EXCEPT !.op = "order", !.user_id = u, !.order_time = t] IN
        /\ Arrive(r)
        /\ Goto(r, rq, "o_cart", NoSess)
        /\ UNCHANGED <<dbvars, ids, stock0, workload>>

\* The request arrives and `user = db.query(User)...first()` runs;
\* `if not user: raise HTTPException(404, "User not found")`.
CreateOrder_User(r) ==
    \E u \in workload.orderers, t \in workload.times :
        LET rq == [op |-> "order", user_id |-> u, product_id |-> "", size |-> "",
                   quantity |-> 0, order_time |-> t,
                   order_id |-> 0, status |-> ""]
        IN
        /\ Arrive(r)
        /\ IF u \in users
           THEN Goto(r, rq, "o_cart", NoSess)
           ELSE Return(r, rq, "UserNotFound")
        /\ UNCHANGED <<dbvars, ids, stock0, workload>>

\* `cart_items = db.query(Cart).filter(user_id).all()`;
\* `if not cart_items: raise HTTPException(400, "Cart is empty")`.
CreateOrder_Cart(r) ==
    /\ pc[r] = "o_cart"
    /\ LET cart_items == SortedById(UserCart(req[r].user_id)) IN
       IF cart_items = <<>>
       THEN Return(r, req[r], "CartEmpty")
       ELSE Goto(r, req[r], "o_validate",
                 [sess[r] EXCEPT !.cart_items = cart_items, !.idx = 1])
    /\ UNCHANGED <<dbvars, ids, stock0, pre, prev, nops, workload>>

\* The validation loop without its `if not product: raise`.
CreateOrder_Validate_Skips(r) ==
    /\ pc[r] = "o_validate"
    /\ IF sess[r].idx < Len(sess[r].cart_items)
       THEN Goto(r, req[r], "o_validate", [sess[r] EXCEPT !.idx = @ + 1])
       ELSE Goto(r, req[r], "o_header", sess[r])
    /\ UNCHANGED <<dbvars, ids, stock0, pre, prev, nops, workload>>

\* One turn of the validation loop: the product of one loaded cart item is
\* queried; `if not product: raise HTTPException(404, ...)`.
CreateOrder_Validate(r) ==
    /\ pc[r] = "o_validate"
    /\ LET item == sess[r].cart_items[sess[r].idx] IN
       IF ~QueryProduct(item.product_id).found
       THEN Return(r, req[r], "ProductNotFound")
       ELSE IF sess[r].idx < Len(sess[r].cart_items)
       THEN Goto(r, req[r], "o_validate", [sess[r] EXCEPT !.idx = @ + 1])
       ELSE Goto(r, req[r], "o_header", sess[r])
    /\ UNCHANGED <<dbvars, ids, stock0, pre, prev, nops, workload>>

\* `db_order = Order(user_id, status="pending", time=date.fromisoformat(..))`
\* (a string that is no ISO date raises ValueError), db.add, db.commit().
\* The commit expires every object of the session.
CreateOrder_Header(r) ==
    /\ pc[r] = "o_header"
    /\ IF ~IsoDate(req[r].order_time)
       THEN Return(r, req[r], "error") /\ UNCHANGED <<dbvars, ids>>
       ELSE /\ orders' = orders \cup {[id |-> ids.order, user_id |-> req[r].user_id,
                                       status |-> "pending",
                                       time |-> req[r].order_time]}
            /\ ids' = [ids EXCEPT !.order = @ + 1]
            /\ Goto(r, req[r], "o_items",
                    [sess[r] EXCEPT !.db_order = ids.order, !.idx = 1])
            /\ UNCHANGED <<users, products, stock, cart, orderItems>>
    /\ UNCHANGED <<stock0, pre, prev, nops, workload>>

\* The row a cart item expired by the last commit is reloaded from, by its
\* primary key.
Reload(item) == {c \in cart : c.id = item.id}

\* The order-item loop reserving the item's quantity a second time.
CreateOrder_Item_Deducts(r) ==
    /\ pc[r] = "o_items"
    /\ LET item == sess[r].cart_items[sess[r].idx] IN
       IF Reload(item) = {}
       THEN Return(r, req[r], "error") /\ UNCHANGED <<dbvars, ids>>
       ELSE LET now == CHOOSE c \in Reload(item) : TRUE IN
            /\ orderItems' = orderItems \cup
                   {[id |-> ids.item, order_id |-> sess[r].db_order,
                     product_id |-> now.product_id, size |-> now.size,
                     quantity |-> now.quantity]}
            /\ stock' = [stock EXCEPT ![now.product_id] =
                             DeductStock(@, now.size, now.quantity)]
            /\ ids' = [ids EXCEPT !.item = @ + 1]
            /\ IF sess[r].idx < Len(sess[r].cart_items)
               THEN Goto(r, req[r], "o_items", [sess[r] EXCEPT !.idx = @ + 1])
               ELSE Goto(r, req[r], "o_delete", sess[r])
            /\ UNCHANGED <<users, products, cart, orders>>
    /\ UNCHANGED <<stock0, pre, prev, nops, workload>>

\* The order-item loop with `quantity=item.quantity` left out, so that the
\* item gets a quantity of 1.
CreateOrder_Item_NoQuantity(r) ==
    /\ pc[r] = "o_items"
    /\ LET item == sess[r].cart_items[sess[r].idx] IN
       IF Reload(item) = {}
       THEN Return(r, req[r], "error") /\ UNCHANGED <<dbvars, ids>>
       ELSE LET now == CHOOSE c \in Reload(item) : TRUE IN
            /\ orderItems' = orderItems \cup
                   {[id |-> ids.item, order_id |-> sess[r].db_order,
                     product_id |-> now.product_id, size |-> now.size,
                     quantity |-> 1]}
            /\ ids' = [ids EXCEPT !.item = @ + 1]
            /\ IF sess[r].idx < Len(sess[r].cart_items)
               THEN Goto(r, req[r], "o_items", [sess[r] EXCEPT !.idx = @ + 1])
               ELSE Goto(r, req[r], "o_delete", sess[r])
            /\ UNCHANGED <<users, products, stock, cart, orders>>
    /\ UNCHANGED <<stock0, pre, prev, nops, workload>>

\* One turn of the order-item loop: the expired cart item is reloaded (its
\* row gone: ObjectDeletedError), the OrderItem is added, db.commit().
CreateOrder_Item(r) ==
    /\ pc[r] = "o_items"
    /\ LET item == sess[r].cart_items[sess[r].idx] IN
       IF Reload(item) = {}
       THEN Return(r, req[r], "error") /\ UNCHANGED <<dbvars, ids>>
       ELSE LET now == CHOOSE c \in Reload(item) : TRUE IN
            /\ orderItems' = orderItems \cup
                   {[id |-> ids.item, order_id |-> sess[r].db_order,
                     product_id |-> now.product_id, size |-> now.size,
                     quantity |-> now.quantity]}
            /\ ids' = [ids EXCEPT !.item = @ + 1]
            /\ IF sess[r].idx < Len(sess[r].cart_items)
               THEN Goto(r, req[r], "o_items", [sess[r] EXCEPT !.idx = @ + 1])
               ELSE Goto(r, req[r], "o_delete", sess[r])
            /\ UNCHANGED <<users, products, stock, cart, orders>>
    /\ UNCHANGED <<stock0, pre, prev, nops, workload>>

\* The cart deletion without its filter on the user.
CreateOrder_Delete_Unfiltered(r) ==
    /\ pc[r] = "o_delete"
    /\ cart' = {}
    /\ Goto(r, req[r], "o_return", sess[r])
    /\ UNCHANGED <<users, products, stock, orders, orderItems, ids,
                   stock0, pre, prev, nops, workload>>

\* `db.query(Cart).filter(Cart.user_id == order.user_id).delete()`, db.commit().
CreateOrder_Delete(r) ==
    /\ pc[r] = "o_delete"
    /\ cart' = {c \in cart : c.user_id # req[r].user_id}
    /\ Goto(r, req[r], "o_return", sess[r])
    /\ UNCHANGED <<users, products, stock, orders, orderItems, ids,
                   stock0, pre, prev, nops, workload>>

\* create_order_from_cart returning get_all_orders(db) instead of the
\* orders of the user.
CreateOrder_Return_AllOrders(r) ==
    /\ pc[r] = "o_return"
    /\ LET found == AllOrders IN
       /\ pc' = [pc EXCEPT ![r] = "idle"]
       /\ req' = [req EXCEPT ![r] = IF workload.alone THEN req[r] ELSE NoReq]
       /\ sess' = [sess EXCEPT ![r] = NoSess]
       /\ res' = [res EXCEPT ![r] = IF found = <<>> THEN "error" ELSE "ok"]
       /\ view' = NoView
       /\ shown' = IF workload.alone THEN found ELSE <<>>
    /\ UNCHANGED <<dbvars, ids, stock0, pre, prev, prices, authvars, nops, workload>>

\* `return get_user_orders(db, order.user_id)`; main.py answers 400 when the
\* list is empty.
CreateOrder_Return(r) ==
    /\ pc[r] = "o_return"
    /\ LET found == UserOrders(req[r].user_id) IN
       /\ pc' = [pc EXCEPT ![r] = "idle"]
       /\ req' = [req EXCEPT ![r] = IF workload.alone THEN req[r] ELSE NoReq]
       /\ sess' = [sess EXCEPT ![r] = NoSess]
       /\ res' = [res EXCEPT ![r] = IF found = <<>> THEN "error" ELSE "ok"]
       /\ view' = NoView
       /\ shown' = IF workload.alone THEN found ELSE <<>>
    /\ UNCHANGED <<dbvars, ids, stock0, pre, prev, prices, authvars, nops, workload>>

\* ------------------------------------------------------------ environment

\* A request is abandoned between two of its database calls (the client
\* goes away, the worker dies, the connection is lost): what its session
\* has not committed is rolled back.
Abandon(r) ==
    /\ ~Idle(r)
    /\ Return(r, req[r], "error")
    /\ UNCHANGED <<dbvars, ids, stock0, pre, prev, nops, workload>>

\* The catalog retires a product: its row leaves table products, the cart
\* rows that name it stay.  Among calls made one at a time it is one of the
\* calls.
Retire(p) ==
    /\ p \in products
    /\ p \in workload.products
    /\ products' = products \ {p}
    /\ IF workload.alone
       THEN /\ Arrive(1)
            /\ Return(1, [NoReq EXCEPT !.op = "retire", !.product_id = p], "ok")
       ELSE UNCHANGED <<pc, req, sess, res, pre, prev, prices, authvars, shown, view, nops>>
    /\ UNCHANGED <<users, stock, cart, orders, orderItems, ids, stock0, workload>>

\* The catalog changes the prices of a product (no function of src/ writes
\* a price column): every price of the row goes up, once.  It is one of the
\* calls made one at a time.
Reprice(p) ==
    /\ p \in products
    /\ p \in workload.products
    /\ prices[p] = SeededPrices[p]
    /\ prices' = [prices EXCEPT ![p] = [s \in Sizes |-> @[s] + 7]]
    /\ Arrive(1)
    /\ pc' = [pc EXCEPT ![1] = "idle"]
    /\ req' = [req EXCEPT ![1] = [NoReq EXCEPT !.op = "reprice", !.product_id = p]]
    /\ sess' = [sess EXCEPT ![1] = NoSess]
    /\ res' = [res EXCEPT ![1] = "ok"]
    /\ view' = NoView
    /\ shown' = <<>>
    /\ UNCHANGED <<dbvars, ids, stock0, authvars, workload>>

\* ------------------------------------------------------------------- Init

InitWith(w) ==
    /\ workload = w
    /\ users = UserIds
    /\ products = ProductIds
    /\ \E n \in w.seeds : stock = [p \in ProductIds |-> [s \in Sizes |-> n]]
    /\ stock0 = stock
    /\ cart = {}
    /\ orders = {}
    /\ orderItems = {}
    /\ ids = [cart |-> 1, order |-> 1, item |-> 1]
    /\ pc = [r \in Reqs |-> "idle"]
    /\ req = [r \in Reqs |-> NoReq]
    /\ sess = [r \in Reqs |-> NoSess]
    /\ res = [r \in Reqs |-> "none"]
    /\ pre = NoDb
    /\ prev = NoPrev
    /\ prices = SeededPrices
    /\ view = NoView
    /\ shown = <<>>
    /\ nops = 0
    /\ tokens = {}
    /\ clock = 0
    /\ auth = [r \in Reqs |-> NoAuth]

Step(r) ==
    \/ AddToCart_Product(r)
    \/ AddToCart_Cart(r)
    \/ AddToCart_Commit(r)
    \/ UpdateCartQuantity_Cart(r)
    \/ UpdateCartQuantity_Product(r)
    \/ UpdateCartQuantity_Commit(r)
    \/ RemoveFromCart_Cart(r)
    \/ RemoveFromCart_Product(r)
    \/ RemoveFromCart_Commit(r)
    \/ GetUserCart(r)
    \/ GetAllOrders(r)
    \/ GetUserOrders(r)
    \/ UpdateOrderStatus_Order(r)
    \/ UpdateOrderStatus_Commit(r)
    \/ CreateOrder_User(r)
    \/ CreateOrder_Cart(r)
    \/ CreateOrder_Validate(r)
    \/ CreateOrder_Header(r)
    \/ CreateOrder_Item(r)
    \/ CreateOrder_Delete(r)
    \/ CreateOrder_Return(r)

\* Concurrent requests; any of them may be abandoned.
Init == InitWith(Concurrent)

Next ==
    \/ \E r \in Reqs : Step(r)
    \/ \E r \in Reqs : Abandon(r)
    \/ \E p \in ProductIds : Retire(p)

Spec == Init /\ [][Next]_vars

\* Calls made one at a time, each run to its end.
SeqNext ==
    \/ \E r \in Reqs : Step(r)
    \/ \E p \in ProductIds : Retire(p)

SeqInit == InitWith(WellFormed)

SeqSpec == SeqInit /\ [][SeqNext]_vars

UncheckedInit == InitWith(Unchecked)

UncheckedSpec == UncheckedInit /\ [][SeqNext]_vars

ScenarioInit == InitWith(Scenario)

ScenarioSpec == ScenarioInit /\ [][SeqNext]_vars

PairedInit == InitWith(Paired)

PairedSpec == PairedInit /\ [][SeqNext]_vars

StrangerInit == InitWith(Strangers)

StrangerSpec == StrangerInit /\ [][SeqNext]_vars

\* Calls made one at a time while the catalog changes prices.
CatalogNext ==
    \/ SeqNext
    \/ \E p \in ProductIds : Reprice(p)

CatalogInit == InitWith(Catalog)

CatalogSpec == CatalogInit /\ [][CatalogNext]_vars

\* ------------------------------------------------- signin, refresh, logout

\* What the token handlers never touch.
shopvars == <<dbvars, ids, stock0, pc, req, sess, res, pre, prev, prices,
              shown, view, workload>>

\* auth.create_access_token(data={"sub": username, "type": type},
\* expires_delta=...): a signed JWT, the same string for the same subject,
\* type and second of issue.
Mint(u, type) == [sub |-> u, type |-> type, exp |-> clock]

\* The cookies of a type a client can hold: tokens issued up to now.
Issued(type) ==
    {[sub |-> u, type |-> type, exp |-> e] : u \in workload.callers, e \in 0..clock}

\* A signin, refresh or logout request arrives at slot r.
Enter(r) ==
    /\ auth[r].pc = "idle"
    /\ nops < workload.limit
    /\ nops' = nops + 1

\* POST /signin: the user is authenticated and both tokens are made; the
\* access token is stored first.
Signin(r) ==
    \E u \in workload.callers \cap users :
        /\ Enter(r)
        /\ auth' = [auth EXCEPT ![r] =
                      [pc |-> "si_access_delete", op |-> "signin", user_id |-> u,
                       access |-> Mint(u, "access"), refresh |-> Mint(u, "refresh"),
                       res |-> "none"]]
        /\ UNCHANGED <<tokens, clock, shopvars>>

\* The token type a create_token call of request r is about.
TokenType(r) == IF auth[r].pc \in {"si_refresh_delete", "si_refresh_insert"}
                THEN "refresh" ELSE "access"

\* create_token, first half: `db.query(Token).filter(user_id, token_type)
\* .delete()` and db.commit().
CreateToken_Delete(r) ==
    /\ auth[r].pc \in {"si_access_delete", "si_refresh_delete", "rf_access_delete"}
    /\ tokens' = {k \in tokens : ~(/\ k.user_id = auth[r].user_id
                                   /\ k.token_type = TokenType(r))}
    /\ auth' = [auth EXCEPT ![r].pc =
                  IF @ = "si_access_delete" THEN "si_access_insert"
                  ELSE IF @ = "si_refresh_delete" THEN "si_refresh_insert"
                  ELSE "rf_access_insert"]
    /\ UNCHANGED <<clock, nops, shopvars>>

\* create_token, second half: db.add(Token(...)) and db.commit().  Column
\* token is unique: a string that is stored already raises IntegrityError,
\* which the handler turns into HTTP 500 after a rollback.
CreateToken_Insert(r) ==
    /\ auth[r].pc \in {"si_access_insert", "si_refresh_insert", "rf_access_insert"}
    /\ LET type == TokenType(r)
           token == IF type = "refresh" THEN auth[r].refresh ELSE auth[r].access
       IN
       IF \E k \in tokens : k.token = token
       THEN /\ auth' = [auth EXCEPT ![r].pc = "idle", ![r].res = "error"]
            /\ UNCHANGED tokens
       ELSE /\ tokens' = tokens \cup {[user_id |-> auth[r].user_id, token |-> token,
                                      token_type |-> type]}
            /\ auth' = [auth EXCEPT
                          ![r].pc = IF @ = "si_access_insert"
                                    THEN "si_refresh_delete" ELSE "idle",
                          ![r].res = IF auth[r].pc = "si_access_insert"
                                     THEN "none" ELSE "ok"]
    /\ UNCHANGED <<clock, nops, shopvars>>

\* POST /refresh: the cookie is decoded, the user found, and
\* `db_token = crud.get_token(db, refresh_token, "refresh")`; without a row
\* 401 "Invalid refresh token"; else a new access token is made.
RefreshToken(r) ==
    \E t \in Issued("refresh") :
        /\ Enter(r)
        /\ t.sub \in users
        /\ IF \E k \in tokens : k.token = t /\ k.token_type = "refresh"
           THEN auth' = [auth EXCEPT ![r] =
                           [pc |-> "rf_access_delete", op |-> "refresh",
                            user_id |-> t.sub, access |-> Mint(t.sub, "access"),
                            refresh |-> t, res |-> "none"]]
           ELSE auth' = [auth EXCEPT ![r] =
                           [pc |-> "idle", op |-> "refresh", user_id |-> t.sub,
                            access |-> NoToken, refresh |-> t,
                            res |-> "InvalidRefreshToken"]]
        /\ UNCHANGED <<tokens, clock, shopvars>>

\* delete_token: the row with this string and type, when there is one, is
\* deleted and the deletion committed.
DeleteToken(token, type) ==
    {k \in tokens : ~(k.token = token /\ k.token_type = type)}

\* POST /logout with the cookies of one user, either of which may be
\* missing: `if access_token: crud.delete_token(db, access_token, "access")`.
Logout(r) ==
    \E u \in workload.callers \cap users :
    \E a \in {x \in Issued("access") : x.sub = u} \cup {NoToken},
       t \in {x \in Issued("refresh") : x.sub = u} \cup {NoToken} :
        /\ Enter(r)
        /\ tokens' = IF a # NoToken THEN DeleteToken(a, "access") ELSE tokens
        /\ auth' = [auth EXCEPT ![r] =
                      [pc |-> "lo_refresh", op |-> "logout", user_id |-> u,
                       access |-> a, refresh |-> t, res |-> "none"]]
        /\ UNCHANGED <<clock, shopvars>>

\* logout deleting the refresh cookie's string among the access tokens.
Logout_Refresh_WrongType(r) ==
    /\ auth[r].pc = "lo_refresh"
    /\ tokens' = IF auth[r].refresh # NoToken
                 THEN DeleteToken(auth[r].refresh, "access") ELSE tokens
    /\ auth' = [auth EXCEPT ![r].pc = "idle", ![r].res = "ok"]
    /\ UNCHANGED <<clock, nops, shopvars>>

\* `if refresh_token: crud.delete_token(db, refresh_token, "refresh")`, and
\* the answer "Logout successful".
Logout_Refresh(r) ==
    /\ auth[r].pc = "lo_refresh"
    /\ tokens' = IF auth[r].refresh # NoToken
                 THEN DeleteToken(auth[r].refresh, "refresh") ELSE tokens
    /\ auth' = [auth EXCEPT ![r].pc = "idle", ![r].res = "ok"]
    /\ UNCHANGED <<clock, nops, shopvars>>

\* A second passes.
Tick ==
    /\ clock < MaxClock
    /\ clock' = clock + 1
    /\ UNCHANGED <<tokens, auth, nops, shopvars>>

SessionNext ==
    \/ \E r \in Reqs : Signin(r)
    \/ \E r \in Reqs : CreateToken_Delete(r)
    \/ \E r \in Reqs : CreateToken_Insert(r)
    \/ \E r \in Reqs : RefreshToken(r)
    \/ \E r \in Reqs : Logout(r)
    \/ \E r \in Reqs : Logout_Refresh(r)
    \/ Tick

SessionInit == InitWith(Sessions)

SessionSpec == SessionInit /\ [][SessionNext]_vars

\* ================================================================ claims

RECURSIVE SumQuantity(_)
SumQuantity(rows) ==
    IF rows = {} THEN 0
    ELSE LET x == CHOOSE y \in rows : TRUE
         IN x.quantity + SumQuantity(rows \ {x})

\* The units of product p, size s held by the cart rows of database d.
InCarts(d, p, s) ==
    SumQuantity({c \in d.cart : c.product_id = p /\ c.size = s})

\* The units of product p, size s in the order items of database d.
InOrders(d, p, s) ==
    SumQuantity({i \in d.orderItems : i.product_id = p /\ i.size = s})

AllIdle == \A r \in Reqs : Idle(r)

\* Slot r holds the record of a finished call of operation op.
Ended(r, op) == Idle(r) /\ req[r].op = op

\* C1: no oversell.  Under every interleaving of concurrent add_to_cart and
\* update_cart_quantity requests, the quantities held by the cart entries of
\* a product and size never sum to more than the stock it was seeded with.
C1_NoOversell ==
    \A p \in ProductIds, s \in Sizes : InCarts(Db, p, s) <= stock0[p][s]

\* C2: commit is all-or-nothing.  When a create_order_from_cart call that
\* has passed product validation fails or is abandoned, no order and no
\* order item of that call is persisted and the stock is as it was.
AfterValidation == {"o_header", "o_items", "o_delete", "o_return"}

C2_FailedCommitLeavesNothing(r) ==
    (pc[r] \in AfterValidation /\ pc'[r] = "idle" /\ res'[r] # "ok")
        => /\ \A o \in orders' : o.id # sess[r].db_order
           /\ \A i \in orderItems' : i.order_id # sess[r].db_order
           /\ pc[r] # "o_return"
           /\ stock' = stock

C2_CommitAllOrNothing ==
    [][\A r \in Reqs : C2_FailedCommitLeavesNothing(r)]_vars

\* C3: stock conservation.  After any sequence of add_to_cart,
\* update_cart_quantity, remove_from_cart and create_order_from_cart calls
\* made one at a time, for every product of the catalog and every size the
\* stock counter plus the quantities of the cart entries plus the
\* quantities of the order items equals the seeded stock.
C3_StockConservation ==
    AllIdle =>
        \A p \in products, s \in Sizes :
            stock[p][s] + InCarts(Db, p, s) + InOrders(Db, p, s) = stock0[p][s]

\* A catalog product has units in a cart and units in an order, after the
\* last call of the behaviour.
C3_Witness ==
    /\ AllIdle
    /\ nops = workload.limit
    /\ \E p \in products : InCarts(Db, p, "M") > 0 /\ InOrders(Db, p, "M") > 0

\* C4: in every reachable state, for any requested quantity, every stock
\* counter of every product of the catalog is at least 0.
C4_StockNeverNegative ==
    \A p \in products, s \in Sizes : stock[p][s] >= 0

\* C6: no lost update.  Once the concurrent reservations and releases on a
\* product and size have all ended (and no order was committed), the stock
\* counter is the seeded stock minus the quantities the cart entries hold,
\* that is minus what was reserved plus what was released.
C6_NoLostUpdate ==
    (AllIdle /\ orders = {})
        => \A p \in products, s \in Sizes :
               stock[p][s] = stock0[p][s] - InCarts(Db, p, s)

\* C5: when a product named by a cart entry of the (existing) user is no
\* longer in the catalog as create_order_from_cart starts, the call answers
\* ProductNotFound, and from its start to its end the products, the stock,
\* the cart, the orders and the order items are those it started from.
C5_Applies(r) ==
    /\ req[r].op = "order"
    /\ req[r].user_id \in users
    /\ \E c \in pre.cart : c.user_id = req[r].user_id /\ c.product_id \notin pre.products

C5_RetiredProductRejected ==
    \A r \in Reqs :
        C5_Applies(r) => /\ Db = pre
                         /\ pc[r] \notin AfterValidation
                         /\ Idle(r) => res[r] = "ProductNotFound"

\* Such a call has ended, for a cart that also names a catalog product.
C5_Witness ==
    \E r \in Reqs :
        /\ C5_Applies(r)
        /\ Idle(r)
        /\ \E c \in pre.cart : c.user_id = req[r].user_id /\ c.product_id \in pre.products

\* C7: the scenario.  With product P in the catalog, stock 5 for (P, M) and
\* empty carts, add_to_cart(u1, P, M, 3) succeeds and leaves stock 2; from
\* there add_to_cart(u2, P, M, 3) is rejected for insufficient stock and
\* changes nothing; from there update_cart_quantity(u1, P, M, 1) succeeds
\* and leaves stock 4; from there create_order_from_cart(u1) succeeds,
\* creates exactly one order with exactly one item (P, M, 1), empties u1's
\* cart and leaves stock 4.
CallEnded(op, u, q) ==
    /\ Ended(1, op)
    /\ req[1].user_id = u
    /\ op # "order" => req[1].product_id = "P" /\ req[1].size = "M" /\ req[1].quantity = q

\* In database d, P is in the catalog with n units of size M, and the one
\* cart row is user 1's entry (P, M, q).
ScenarioState(d, n, q) ==
    /\ "P" \in d.products
    /\ d.stock["P"]["M"] = n
    /\ \E c \in d.cart : /\ d.cart = {c}
                         /\ c.user_id = 1 /\ c.product_id = "P"
                         /\ c.size = "M" /\ c.quantity = q

ScenarioStart(d) ==
    "P" \in d.products /\ d.stock["P"]["M"] = 5 /\ d.cart = {}

ScenarioCommitted ==
    /\ stock["P"]["M"] = 4
    /\ cart = {}
    /\ \E o \in orders :
        /\ orders \ pre.orders = {o}
        /\ o.user_id = 1
        /\ \E i \in orderItems :
            /\ {j \in orderItems : j.order_id = o.id} = {i}
            /\ orderItems \ pre.orderItems = {i}
            /\ i.product_id = "P" /\ i.size = "M" /\ i.quantity = 1

C8_RejectionChangesNothing ==
    \A r \in Reqs :
        (req[r].op \in {"add", "update"} /\ (~Idle(r) \/ res[r] = "InsufficientStock"))
            => (stock = pre.stock /\ cart = pre.cart)

\* An update of an existing entry to a larger quantity has been rejected.
C8_Witness ==
    \E r \in Reqs :
        /\ Ended(r, "update")
        /\ res[r] = "InsufficientStock"
        /\ \E c \in cart : /\ c.user_id = req[r].user_id
                           /\ c.product_id = req[r].product_id
                           /\ c.size = req[r].size
                           /\ c.quantity < req[r].quantity

\* C9: a first add_to_cart for a catalog product, whatever the size string,
\* succeeds if and only if stock[size] >= quantity (a size with no counter
\* has no stock); when it succeeds stock[size] has gone down by quantity and
\* the entry holds quantity; otherwise it answers InsufficientStock.
Available(d, p, s) == IF s \in Sizes THEN d.stock[p][s] ELSE 0

C9_FirstAdd(r) ==
    LET rq == req[r] IN
    /\ res[r] = "ok" <=> Available(pre, rq.product_id, rq.size) >= rq.quantity
    /\ res[r] # "ok" => res[r] = "InsufficientStock"
    /\ res[r] = "ok" =>
        /\ Available(Db, rq.product_id, rq.size)
               = Available(pre, rq.product_id, rq.size) - rq.quantity
        /\ \E c \in cart : /\ c.user_id = rq.user_id /\ c.product_id = rq.product_id
                           /\ c.size = rq.size /\ c.quantity = rq.quantity

C9_FirstAddFollowsStock ==
    \A r \in Reqs :
        (/\ Ended(r, "add")
         /\ req[r].product_id \in pre.products
         /\ ~(\E c \in pre.cart : /\ c.user_id = req[r].user_id
                                  /\ c.product_id = req[r].product_id
                                  /\ c.size = req[r].size))
            => C9_FirstAdd(r)

\* C10: a successful create_order_from_cart(user) creates exactly one order,
\* pending and of that user, and its order items are exactly one per cart
\* entry the user had when the call started, each with the product, size
\* and quantity of its entry.
Lines(rows) == {<<x.product_id, x.size, x.quantity>> : x \in rows}

C10_Snapshot(r) ==
    LET entries == {c \in pre.cart : c.user_id = req[r].user_id} IN
    \E o \in orders :
        /\ orders \ pre.orders = {o}
        /\ o.status = "pending"
        /\ o.user_id = req[r].user_id
        /\ LET items == {i \in orderItems : i.order_id = o.id} IN
            /\ orderItems \ pre.orderItems = items
            /\ Lines(items) = Lines(entries)
            /\ Cardinality(items) = Cardinality(entries)

OthersCart(d, u) == {c \in d.cart : c.user_id # u}

C12_OrderLeavesStock ==
    \A r \in Reqs : req[r].op = "order" => stock = pre.stock

\* A call has succeeded on a stock that reservations had lowered.
C12_Witness ==
    \E r \in Reqs :
        /\ Ended(r, "order")
        /\ res[r] = "ok"
        /\ pre.stock # stock0
        /\ \E i \in orderItems : i \notin pre.orderItems

\* C13: an update_cart_quantity on an existing entry of a catalog product,
\* from quantity old to quantity new, is rejected for insufficient stock
\* exactly when new - old > stock[size] and succeeds otherwise; when it
\* succeeds stock[size] has changed by old - new, no other counter has
\* changed and the entry holds new; when new = old it succeeds and changes
\* neither the stock nor the cart.
C13_Delta(r, e) ==
    LET p == req[r].product_id
        s == req[r].size
        old == e.quantity
        new == req[r].quantity
    IN
    /\ res[r] = "InsufficientStock" <=> new - old > pre.stock[p][s]
    /\ res[r] # "InsufficientStock" => res[r] = "ok"
    /\ res[r] = "ok" =>
        /\ stock = [pre.stock EXCEPT ![p][s] = @ + old - new]
        /\ cart = (pre.cart \ {e}) \cup {[e EXCEPT !.quantity = new]}
    /\ new = old => (res[r] = "ok" /\ stock = pre.stock /\ cart = pre.cart)

C13_DeltaAdjustment ==
    \A r \in Reqs :
        (Ended(r, "update") /\ req[r].product_id \in pre.products /\ req[r].size \in Sizes)
            => \A e \in pre.cart :
                   (/\ e.user_id = req[r].user_id
                    /\ e.product_id = req[r].product_id
                    /\ e.size = req[r].size) => C13_Delta(r, e)

\* An entry has been lowered, releasing stock that had run out.
C13_Witness ==
    \E r \in Reqs :
        /\ Ended(r, "update")
        /\ res[r] = "ok"
        /\ \E e \in pre.cart : /\ e.user_id = req[r].user_id
                               /\ e.product_id = req[r].product_id
                               /\ e.size = req[r].size
                               /\ e.quantity > req[r].quantity
                               /\ pre.stock[e.product_id][e.size] = 0

\* C14: a successful first add_to_cart(u, p, s, q) followed at once by
\* remove_from_cart(u, p, s) succeeds, brings stock[p][s] back to its value
\* before the add and leaves no cart entry for (u, p, s).
C14_RoundTripMade ==
    /\ Ended(1, "remove")
    /\ prev.req.op = "add"
    /\ prev.res = "ok"
    /\ prev.req.user_id = req[1].user_id
    /\ prev.req.product_id = req[1].product_id
    /\ prev.req.size = req[1].size
    /\ ~(\E c \in prev.pre.cart : /\ c.user_id = req[1].user_id
                                  /\ c.product_id = req[1].product_id
                                  /\ c.size = req[1].size)

C14_ReserveReleaseRoundTrip ==
    C14_RoundTripMade
        => /\ res[1] = "ok"
           /\ stock[req[1].product_id][req[1].size]
                  = prev.pre.stock[req[1].product_id][req[1].size]
           /\ MatchingCart(req[1].user_id, req[1].product_id, req[1].size) = {}

\* The round trip has been made from a state other than the seeded one.
C14_Witness ==
    /\ C14_RoundTripMade
    /\ prev.pre.cart # {}
    /\ prev.pre.stock # stock0

\* C15: remove_from_cart for a (user, product, size) that has no cart entry
\* reports success and changes nothing (and so does it again when repeated).
C15_RemoveMissingSucceeds ==
    \A r \in Reqs :
        (/\ Ended(r, "remove")
         /\ ~(\E c \in pre.cart : /\ c.user_id = req[r].user_id
                                  /\ c.product_id = req[r].product_id
                                  /\ c.size = req[r].size))
            => (res[r] = "ok" /\ stock = pre.stock /\ cart = pre.cart)

\* C16: update_cart_quantity and remove_from_cart answer CartItemNotFound
\* exactly when the (user, product, size) has no cart entry, and then change
\* nothing; with an entry they never answer CartItemNotFound, also when the
\* entry's product has left the catalog.
C16_NotFoundIffNoEntry ==
    \A r \in Reqs :
        (Ended(r, "update") \/ Ended(r, "remove"))
            => /\ res[r] = "CartItemNotFound"
                   <=> ~(\E c \in pre.cart : /\ c.user_id = req[r].user_id
                                             /\ c.product_id = req[r].product_id
                                             /\ c.size = req[r].size)
               /\ res[r] = "CartItemNotFound" => Db = pre

\* C17: at most one cart entry for each (user_id, product_id, size), under
\* any interleaving of concurrent add_to_cart requests.
C17_OneEntryPerTriple ==
    \A c \in cart, d \in cart :
        (c.user_id = d.user_id /\ c.product_id = d.product_id /\ c.size = d.size)
            => c = d

\* C18: every cart entry has quantity >= 1, and an add_to_cart or
\* update_cart_quantity with a requested quantity of 0 or less is rejected
\* and changes neither the cart nor the stock.
C18_QuantityAtLeastOne ==
    /\ \A c \in cart : c.quantity >= 1
    /\ \A r \in Reqs :
        ((Ended(r, "add") \/ Ended(r, "update")) /\ req[r].quantity <= 0)
            => (res[r] # "ok" /\ cart = pre.cart /\ stock = pre.stock)

\* C19: in the cart view every item's price is the line price: the unit
\* price of the item's product for the item's size, times the item's
\* quantity.
UnitPrice(p, s) == prices[p][s]

C19_LinePrice ==
    \A r \in Reqs :
        Ended(r, "view")
            => \A i \in 1..Len(view.items) :
                   view.items[i].price
                       = UnitPrice(view.items[i].product_id, view.items[i].size)
                             * view.items[i].quantity

\* C20: the cart view of a user lists every cart entry of that user and no
\* entry of another user, and total_products is the number of that user's
\* cart entries, also when the product of an entry has left the catalog.
Listed(v) ==
    {<<v.items[i].user_id, v.items[i].product_id, v.items[i].size,
       v.items[i].quantity>> : i \in 1..Len(v.items)}

C20_ViewListsWholeCart ==
    \A r \in Reqs :
        Ended(r, "view")
            => LET entries == UserCart(req[r].user_id) IN
               /\ Listed(view) = {<<c.user_id, c.product_id, c.size, c.quantity>> :
                                     c \in entries}
               /\ view.total_products = Cardinality(entries)
               /\ Len(view.items) = Cardinality(entries)

\* C21: create_order_from_cart for a user id that is in no row of users
\* answers UserNotFound whatever the cart holds, and for a user with no cart
\* entry it answers CartEmpty; in both cases the orders, the order items,
\* the cart and the stock are those of the start of the call.
C21_NoUser(r) == req[r].op = "order" /\ req[r].user_id \notin users

C21_NoCart(r) ==
    /\ req[r].op = "order"
    /\ req[r].user_id \in users
    /\ ~(\E c \in pre.cart : c.user_id = req[r].user_id)

C21_OrderPreconditions ==
    \A r \in Reqs :
        /\ C21_NoUser(r) => (Db = pre /\ (Idle(r) => res[r] = "UserNotFound"))
        /\ C21_NoCart(r) => (Db = pre /\ (Idle(r) => res[r] = "CartEmpty"))

\* An order has been refused to an unknown user id that holds cart rows.
C21_Witness ==
    \E r \in Reqs :
        /\ C21_NoUser(r)
        /\ Idle(r)
        /\ \E c \in pre.cart : c.user_id = req[r].user_id

\* C22: add_to_cart for a product id that is not in the catalog fails as
\* ProductNotFound (crud returns None, main.py answers 400), creates no cart
\* entry and changes no stock counter.
C22_Applies(r) == req[r].op = "add" /\ req[r].product_id \notin pre.products

C22_AddUnknownProduct ==
    \A r \in Reqs :
        C22_Applies(r) => /\ cart = pre.cart
                          /\ stock = pre.stock
                          /\ Idle(r) => res[r] = "ProductNotFound"

\* The add has been refused while the retired product's row still showed
\* stock and its carts still held entries.
C22_Witness ==
    \E r \in Reqs :
        /\ C22_Applies(r)
        /\ Idle(r)
        /\ pre.stock[req[r].product_id][req[r].size] >= req[r].quantity
        /\ pre.cart # {}

\* C23: a cart mutation persists its cart change and its stock change
\* together or not at all.  A step of add_to_cart, update_cart_quantity or
\* remove_from_cart that is not its successful commit, a commit that fails
\* with StaleDataError included, writes neither table; a successful commit
\* that found the rows as it had read them moves the units between the
\* stock counter and the cart in one step.
CartLabels == {"a_cart", "a_commit", "u_product", "u_commit", "r_product", "r_commit"}

C23_Undisturbed(r) ==
    /\ req[r].product_id \in products
    /\ stock[req[r].product_id] = sess[r].product.stock
    /\ sess[r].cart_item # NoRow => sess[r].cart_item \in cart

C23_Step(r) ==
    IF pc'[r] = "idle" /\ res'[r] = "ok"
    THEN C23_Undisturbed(r) =>
            LET p == req[r].product_id
                s == req[r].size
            IN stock'[p][s] + InCarts([cart |-> cart'], p, s)
                 = stock[p][s] + InCarts(Db, p, s)
    ELSE cart' = cart /\ stock' = stock

C23_CartAndStockTogether ==
    [][\A r \in Reqs : (pc[r] \in CartLabels /\ pc'[r] # pc[r]) => C23_Step(r)]_vars

\* A cart mutation has failed at its commit after another request had
\* written to the cart.
C23_Witness ==
    \E r \in Reqs : Idle(r) /\ res[r] = "StaleDataError" /\ cart # {}

\* C25: the size of every cart entry and of every order item is one of XS,
\* S, M, L, XL, XXL; a request with any other size creates no entry and
\* changes none.
C25_SizesValid ==
    /\ \A c \in cart : c.size \in Sizes
    /\ \A i \in orderItems : i.size \in Sizes

\* C26: the total price an order view shows for an order is the sum over the
\* order's items of quantity times the unit price the product has for the
\* item's size when the view is read, so a price changed after the order was
\* created shows in the next read.  (An item whose product has left the
\* catalog has no current price; such orders are not covered.)
RECURSIVE C26_Sum(_)
C26_Sum(items) ==
    IF items = {} THEN 0
    ELSE LET i == CHOOSE x \in items : TRUE
         IN i.quantity * prices[i.product_id][i.size] + C26_Sum(items \ {i})

C27_Same(c, i) ==
    c.product_id = i.product_id /\ c.size = i.size /\ c.quantity = i.quantity

C27_Deletion(r) ==
    LET deleted == cart \ cart'
        items == {i \in orderItems : i.order_id = sess[r].db_order}
    IN /\ \A c \in deleted : \E i \in items : C27_Same(c, i)
       /\ \A i \in items : \E c \in deleted : C27_Same(c, i)

C27_DeletedEntriesAreOrdered ==
    [][\A r \in Reqs : (pc[r] = "o_delete" /\ pc'[r] = "o_return") => C27_Deletion(r)]_vars

\* C28: add_to_cart(u, p, s, q) on a triple that has a cart entry does what
\* update_cart_quantity(u, p, s, q) does from the same state: with old the
\* entry's quantity, both are refused as InsufficientStock when q - old
\* exceeds the stock of the size and change nothing, and otherwise both set
\* the entry's quantity to q and leave stock - (q - old).  (The product is in
\* the catalog.)
C28_Entries(r) ==
    {c \in pre.cart : /\ c.user_id = req[r].user_id
                      /\ c.product_id = req[r].product_id
                      /\ c.size = req[r].size}

C28_Applies(r) ==
    /\ Idle(r)
    /\ req[r].op \in {"add", "update"}
    /\ req[r].product_id \in pre.products
    /\ C28_Entries(r) # {}

C28_Replaced(r, e) ==
    LET p == req[r].product_id
        s == req[r].size
        q == req[r].quantity
    IN IF q - e.quantity > pre.stock[p][s]
       THEN res[r] = "InsufficientStock" /\ Db = pre
       ELSE /\ res[r] = "ok"
            /\ cart = (pre.cart \ {e}) \cup {[e EXCEPT !.quantity = q]}
            /\ stock = [pre.stock EXCEPT ![p][s] = @ - (q - e.quantity)]

C28_AddIsUpdate ==
    \A r \in Reqs : C28_Applies(r) => \A e \in C28_Entries(r) : C28_Replaced(r, e)

\* An add_to_cart has replaced the quantity of an entry by a different one.
C28_Witness ==
    \E r \in Reqs :
        /\ C28_Applies(r)
        /\ req[r].op = "add"
        /\ res[r] = "ok"
        /\ \E e \in C28_Entries(r) : e.quantity # req[r].quantity

\* C29: remove_from_cart on a triple that has a cart entry always deletes
\* the entry, also when its product has left the catalog, and adds the
\* entry's quantity to the stock of the size when the product exists.
C29_RemoveAlwaysDeletes ==
    \A r \in Reqs :
        Ended(r, "remove") =>
            \A e \in pre.cart :
                (/\ e.user_id = req[r].user_id
                 /\ e.product_id = req[r].product_id
                 /\ e.size = req[r].size)
                => /\ e \notin cart
                   /\ e.product_id \in pre.products =>
                        stock[e.product_id][e.size]
                          = pre.stock[e.product_id][e.size] + e.quantity

\* C30: for every product and each of the six sizes, the unit price used by
\* the cart view and the unit prices used by get_order, get_user_orders and
\* get_all_orders are the same value, the product's price column of that
\* size; the prices in the answers on record are that value.
C30_Ladders ==
    \A p \in ProductIds, s \in Sizes :
        /\ PriceOf(prices[p], s) = prices[p][s]
        /\ OrderPrice(prices[p], s) = prices[p][s]
        /\ UserOrdersPrice(prices[p], s) = prices[p][s]
        /\ AllOrdersPrice(prices[p], s) = prices[p][s]

C30_SamePriceEverywhere ==
    /\ C30_Ladders
    /\ \A k \in 1..Len(view.items) :
        view.items[k].price = prices[view.items[k].product_id][view.items[k].size]
    /\ \A k \in 1..Len(shown) : \A j \in 1..Len(shown[k].products) :
        LET x == shown[k].products[j] IN x.price = prices[x.product_id][x.size]

\* get_order has answered with an item of a product whose prices the
\* catalog has changed.
C30_Witness ==
    /\ Ended(1, "status")
    /\ \E k \in 1..Len(shown) : \E j \in 1..Len(shown[k].products) :
        prices[shown[k].products[j].product_id]
            # SeededPrices[shown[k].products[j].product_id]

\* C31: a successful create_order_from_cart(user) returns the list of all
\* orders of that user: it holds the order just created with all of its
\* items, every earlier order of the user, and no order of another user.
C31_Listed(o) == \E k \in 1..Len(shown) : shown[k].order_id = o.id

C31_Whole(k) ==
    LET items == {i \in orderItems : i.order_id = shown[k].order_id} IN
    /\ shown[k].total_products = Cardinality(items)
    /\ \A i \in items : \E j \in 1..Len(shown[k].products) :
        /\ shown[k].products[j].product_id = i.product_id
        /\ shown[k].products[j].size = i.size
        /\ shown[k].products[j].quantity = i.quantity

C32_Kept ==
    \A o \in orders : \E n \in orders' :
        n.id = o.id /\ n.user_id = o.user_id /\ n.time = o.time

C32_CreatedByOrder ==
    /\ {n.id : n \in orders'} # {o.id : o \in orders}
         => \E r \in Reqs : pc[r] = "o_header" /\ pc'[r] = "o_items"
    /\ orderItems \subseteq orderItems'
    /\ orderItems' # orderItems
         => \E r \in Reqs : pc[r] = "o_items" /\ pc'[r] \in {"o_items", "o_delete"}

C32_StatusStep(r) ==
    (pc[r] = "s_commit" /\ pc'[r] = "idle") =>
        /\ \A o \in orders : o.id # req[r].order_id => o \in orders'
        /\ orderItems' = orderItems
        /\ cart' = cart
        /\ stock' = stock

C32_CartStep(r) ==
    (pc'[r] # pc[r] /\ (pc[r] \in CartLabels \/ pc'[r] \in CartLabels)) =>
        orders' = orders /\ orderItems' = orderItems

C32_OrdersChangeOnlyInStatus ==
    [][/\ C32_Kept
       /\ C32_CreatedByOrder
       /\ \A r \in Reqs : C32_StatusStep(r) /\ C32_CartStep(r)]_vars

\* The status of an order with items has been changed.
C32_Witness ==
    \E o \in orders :
        /\ o.status = "shipped"
        /\ \E i \in orderItems : i.order_id = o.id

\* C33: a cart mutation on (user, product, size) changes at most the stock
\* counter of that product and size and the cart entry of that triple: the
\* stock of every other product, the other five sizes of the product and
\* every other cart entry stay as they are.
C33_Mine(r, c) ==
    /\ c.user_id = req[r].user_id
    /\ c.product_id = req[r].product_id
    /\ c.size = req[r].size

C33_Frame(r) ==
    /\ \A p \in ProductIds, s \in Sizes :
        (p # req[r].product_id \/ s # req[r].size) => stock'[p][s] = stock[p][s]
    /\ \A c \in cart : ~C33_Mine(r, c) => c \in cart'
    /\ \A c \in cart' : ~C33_Mine(r, c) => c \in cart

C33_MutationTouchesOneTriple ==
    [][\A r \in Reqs : (pc[r] \in CartLabels /\ pc'[r] # pc[r]) => C33_Frame(r)]_vars

\* A cart mutation has changed the stock while the carts held an entry of
\* another triple.
C33_Witness ==
    \E r \in Reqs :
        /\ Idle(r)
        /\ req[r].op \in {"add", "update", "remove"}
        /\ res[r] = "ok"
        /\ stock # pre.stock
        /\ \E c \in pre.cart : ~C33_Mine(r, c)

\* C34: in every persisted state, the states other requests can read while
\* a create_order_from_cart call is under way or after it has failed
\* included, every order has at least one order item.
C34_EveryOrderHasItems ==
    \A o \in orders : \E i \in orderItems : i.order_id = o.id

\* C35: after any sequence and interleaving of signin and refresh requests
\* the token table holds at most one token of each type per user.
C35_OneTokenPerType ==
    \A k1 \in tokens, k2 \in tokens :
        (k1.user_id = k2.user_id /\ k1.token_type = k2.token_type) => k1 = k2

\* C36: after a logout that presented a refresh token, every later refresh
\* request with that token is rejected as invalid and issues no access
\* token, until a signin stores a refresh token; a refresh request never
\* changes the stored refresh tokens.  Step by step: the logout leaves no
\* row of the refresh token it presented; only the refresh insert of a
\* signin adds a refresh row; a refresh request that finds no row of its
\* token is rejected and writes nothing; no step of a refresh request
\* changes the refresh rows.
RefreshRows(table) == {k \in table : k.token_type = "refresh"}

C36_LogoutRevokes(r) ==
    (auth[r].pc = "lo_refresh" /\ auth'[r].pc = "idle" /\ auth[r].refresh # NoToken)
        => ~(\E k \in RefreshRows(tokens') : k.token = auth[r].refresh)

C36_OnlySigninStores ==
    ~(RefreshRows(tokens') \subseteq RefreshRows(tokens))
        => \E r \in Reqs : /\ auth[r].op = "signin"
                           /\ auth[r].pc = "si_refresh_insert"
                           /\ auth'[r].pc = "idle"

C36_RefreshStep(r) ==
    (auth'[r] # auth[r] /\ auth'[r].op = "refresh") =>
        /\ RefreshRows(tokens') = RefreshRows(tokens)
        /\ (/\ auth[r].pc = "idle"
            /\ ~(\E k \in RefreshRows(tokens) : k.token = auth'[r].refresh))
           => /\ auth'[r].pc = "idle"
              /\ auth'[r].res = "InvalidRefreshToken"
              /\ auth'[r].access = NoToken
              /\ tokens' = tokens

C36_RevokedRefreshRejected ==
    [][/\ C36_OnlySigninStores
       /\ \A r \in Reqs : C36_LogoutRevokes(r) /\ C36_RefreshStep(r)]_vars

\* A refresh request has been rejected for the token a finished logout
\* presented, while the user's access token is still stored.
C36_Witness ==
    \E r1 \in Reqs, r2 \in Reqs :
        /\ auth[r1].op = "logout" /\ auth[r1].pc = "idle"
        /\ auth[r2].op = "refresh" /\ auth[r2].res = "InvalidRefreshToken"
        /\ auth[r1].refresh = auth[r2].refresh
        /\ \E k \in tokens : k.user_id = auth[r2].user_id
====
